---- MODULE Spec2Model ----
(***************************************************************************)
(* Thread-local storage and primitive parameters of Gauche                 *)
(* (src/parameter.c): the index allocator, the per-VM thread-local tables, *)
(* the accessor and modifier, and the parameter subrs.                     *)
(*                                                                         *)
(* Encoding of ScmObj values as integers:                                  *)
(*   SCM_UNBOUND, SCM_FALSE  the two markers the code uses;                *)
(*   Promises                heap objects made by delay (forced by         *)
(*                            Scm_Force);                                  *)
(*   anything else           a plain, already concrete value.              *)
(* A vector of ScmObj is a sequence: C slot i is element i+1.              *)
(***************************************************************************)
EXTENDS Integers, Sequences, FiniteSets, TLC

\* ---------------------------------------------------------------- bounds
MaxVM == 2              \* VMs (execution contexts) that ever exist
MaxThreadLocals == 2    \* Scm_MakeThreadLocal calls followed by the model
BootIssued == 63        \* indices issued before the run, in the second Init
MaxIndex == 97          \* largest index ensure_tl_slot is tried on
Window == 8             \* characters tried on each side of a length boundary

\* ------------------------------------------------------ program constants
THREAD_LOCAL_INIT_SIZE == 64
THREAD_LOCAL_GROW == 16
SCM_PARAMETER_LAZY == 1

SCM_UNBOUND == -1
SCM_FALSE == -2
NoValue == -3           \* "no ScmObj here" in the records of the model

Promise42 == 100        \* a promise whose delayed expression yields 42
Promises == {Promise42}
PromiseBody == [p \in Promises |-> 42]

VMs == 1..MaxVM
NoVM == 0               \* NULL ScmVM*, and "nobody" for the mutex

PrimitiveParameterClass == "primitive-parameter"
ParameterClass == "parameter"      \* a subclass, made by SCM_NEW_INSTANCE

\* inputs of the operations: the (klass, initval, flags) a descriptor is made
\* with, the values written, and the argument lists a parameter subr gets
Kinds == { [klass |-> PrimitiveParameterClass, initval |-> 0, flags |-> 0],
           [klass |-> ParameterClass, initval |-> Promise42,
            flags |-> SCM_PARAMETER_LAZY] }
SetVals == {5, SCM_UNBOUND, Promise42}
ArgLists == {<<>>, <<5>>, <<5, 9>>}

VARIABLES
    next_tl_index,  \* static ScmSize next_tl_index
    tl_mutex,       \* the VM holding tl_mutex, or NoVM
    heap,           \* the ScmObj arrays allocated so far (SCM_NEW_ARRAY)
    threadLocals,   \* vm->threadLocals: [vector |-> array in heap, size]
    vms,            \* the VMs created so far
    parent,         \* the base VM a VM's table was copied from, or NoVM
    pc,             \* where each VM is inside Scm_MakeThreadLocal
    frame,          \* arguments and the local `index` of that call
    descriptors,    \* the ScmThreadLocal objects, in order of construction
    forced,         \* per promise: has it been forced
    counter,        \* per promise: times its delayed expression was run
    issued,         \* the indices handed out, in the order of the lock
    outcome,        \* what the last completed operation left behind besides
                    \* its return value: an error raised, a call arranged
    utf8            \* a character being written to a buffer and read back:
                    \* [pc, ch, cp |-> the bytes at cp, result]

vars == <<next_tl_index, tl_mutex, heap, threadLocals, vms, parent, pc,
          frame, descriptors, forced, counter, issued,
          outcome, utf8>>

NoTable == [vector |-> 0, size |-> 0]
NoFrame == [klass |-> "", initval |-> NoValue, flags |-> 0, index |-> NoValue]
NoOutcome == [error |-> "", applied |-> <<>>]
NoUtf8 == [pc |-> "none", ch |-> 0, cp |-> <<>>, result |-> NoValue]

\* ----------------------------------------------------------- table access
\* t->vector[i]
Slot(h, t, i) == h[t.vector][i + 1]

\* tl->flags & SCM_PARAMETER_LAZY
IsLazy(tl) == (tl.flags \div SCM_PARAMETER_LAZY) % 2 = 1

\* --------------------------------------------- Scm__MakeVMThreadLocalTable
\* (variant: the new array has base's size but the elements are not copied)
Scm__MakeVMThreadLocalTable_NoCopy(h, base) ==
    LET n == IF base # NoTable THEN base.size ELSE THREAD_LOCAL_INIT_SIZE
        h2 == Append(h, [i \in 1..n |-> SCM_UNBOUND])
    IN  [heap |-> h2, table |-> [vector |-> Len(h2), size |-> n]]

\* (variant: the new array always has THREAD_LOCAL_INIT_SIZE elements)
Scm__MakeVMThreadLocalTable_InitSize(h, base) ==
    LET vec == [i \in 1..THREAD_LOCAL_INIT_SIZE |->
                  IF base # NoTable /\ i <= base.size
                  THEN h[base.vector][i] ELSE SCM_UNBOUND]
        h2 == Append(h, vec)
    IN  [heap |-> h2,
         table |-> [vector |-> Len(h2), size |-> THREAD_LOCAL_INIT_SIZE]]

\* (variant: table->vector = base->threadLocals->vector, no new array)
Scm__MakeVMThreadLocalTable_Shared(h, base) ==
    IF base # NoTable
    THEN [heap |-> h, table |-> base]
    ELSE LET h2 == Append(h, [i \in 1..THREAD_LOCAL_INIT_SIZE |-> SCM_UNBOUND])
         IN  [heap |-> h2,
              table |-> [vector |-> Len(h2), size |-> THREAD_LOCAL_INIT_SIZE]]

\* base is the table of the creating VM, or NoTable for base == NULL.
\* Yields the heap with the new array and the new table.
Scm__MakeVMThreadLocalTable(h, base) ==
    IF base # NoTable
    THEN LET vec == [i \in 1..base.size |-> h[base.vector][i]]
             h2 == Append(h, vec)
         IN  [heap |-> h2, table |-> [vector |-> Len(h2), size |-> base.size]]
    ELSE LET vec == [i \in 1..THREAD_LOCAL_INIT_SIZE |-> SCM_UNBOUND]
             h2 == Append(h, vec)
         IN  [heap |-> h2,
              table |-> [vector |-> Len(h2), size |-> THREAD_LOCAL_INIT_SIZE]]

\* ---------------------------------------------------------- ensure_tl_slot
\* (variant: the new size is rounded down to a multiple of the quantum)
ensure_tl_slot_RoundDown(h, p, index) ==
    IF index >= p.size
    THEN LET newsiz == (index \div THREAD_LOCAL_GROW) * THREAD_LOCAL_GROW
             newvec == [i \in 1..newsiz |->
                          IF i <= p.size THEN h[p.vector][i] ELSE SCM_UNBOUND]
             oldvec == [i \in 1..p.size |-> SCM_FALSE]
             h2 == Append([h EXCEPT ![p.vector] = oldvec], newvec)
         IN  [heap |-> h2, table |-> [vector |-> Len(h2), size |-> newsiz]]
    ELSE [heap |-> h, table |-> p]

\* (variant: the size is rounded up with index + GROW - 1, so an index that
\* is a multiple of the quantum gets no slot)
ensure_tl_slot_RoundUp(h, p, index) ==
    IF index >= p.size
    THEN LET newsiz == ((index + THREAD_LOCAL_GROW - 1)
                          \div THREAD_LOCAL_GROW) * THREAD_LOCAL_GROW
             newvec == [i \in 1..newsiz |->
                          IF i <= p.size THEN h[p.vector][i] ELSE SCM_UNBOUND]
             oldvec == [i \in 1..p.size |-> SCM_FALSE]
             h2 == Append([h EXCEPT ![p.vector] = oldvec], newvec)
         IN  [heap |-> h2, table |-> [vector |-> Len(h2), size |-> newsiz]]
    ELSE [heap |-> h, table |-> p]

\* (variant: the new array is all SCM_UNBOUND, the old elements are not
\* copied)
ensure_tl_slot_NoCopy(h, p, index) ==
    IF index >= p.size
    THEN LET newsiz == ((index + THREAD_LOCAL_GROW) \div THREAD_LOCAL_GROW)
                         * THREAD_LOCAL_GROW
             newvec == [i \in 1..newsiz |-> SCM_UNBOUND]
             oldvec == [i \in 1..p.size |-> SCM_FALSE]
             h2 == Append([h EXCEPT ![p.vector] = oldvec], newvec)
         IN  [heap |-> h2, table |-> [vector |-> Len(h2), size |-> newsiz]]
    ELSE [heap |-> h, table |-> p]

\* (variant: p->vector[i] is overwritten before it is copied)
ensure_tl_slot_ClearFirst(h, p, index) ==
    IF index >= p.size
    THEN LET newsiz == ((index + THREAD_LOCAL_GROW) \div THREAD_LOCAL_GROW)
                         * THREAD_LOCAL_GROW
             newvec == [i \in 1..newsiz |->
                          IF i <= p.size THEN SCM_FALSE ELSE SCM_UNBOUND]
             oldvec == [i \in 1..p.size |-> SCM_FALSE]
             h2 == Append([h EXCEPT ![p.vector] = oldvec], newvec)
         IN  [heap |-> h2, table |-> [vector |-> Len(h2), size |-> newsiz]]
    ELSE [heap |-> h, table |-> p]

\* (variant: no test of index >= p->size, the table is always reallocated)
ensure_tl_slot_NoGuard(h, p, index) ==
    LET newsiz == ((index + THREAD_LOCAL_GROW) \div THREAD_LOCAL_GROW)
                    * THREAD_LOCAL_GROW
        newvec == [i \in 1..newsiz |->
                     IF i <= p.size THEN h[p.vector][i] ELSE SCM_UNBOUND]
        oldvec == [i \in 1..p.size |-> SCM_FALSE]
        h2 == Append([h EXCEPT ![p.vector] = oldvec], newvec)
    IN  [heap |-> h2, table |-> [vector |-> Len(h2), size |-> newsiz]]

\* Yields the heap and the table after ensure_tl_slot(p, index).  The old
\* array stays in the heap with its elements overwritten by SCM_FALSE.
ensure_tl_slot(h, p, index) ==
    IF index >= p.size
    THEN LET newsiz == ((index + THREAD_LOCAL_GROW) \div THREAD_LOCAL_GROW)
                         * THREAD_LOCAL_GROW
             newvec == [i \in 1..newsiz |->
                          IF i <= p.size THEN h[p.vector][i] ELSE SCM_UNBOUND]
             oldvec == [i \in 1..p.size |-> SCM_FALSE]
             h2 == Append([h EXCEPT ![p.vector] = oldvec], newvec)
         IN  [heap |-> h2, table |-> [vector |-> Len(h2), size |-> newsiz]]
    ELSE [heap |-> h, table |-> p]

\* --------------------------------------------------------------- Scm_Force
\* The value Scm_Force(obj) returns.
Scm_Force(obj) == IF obj \in Promises THEN PromiseBody[obj] ELSE obj

\* The promise flags after Scm_Force(obj): a promise is run at most once.
ForcedAfter(f, obj) ==
    IF obj \in Promises THEN [f EXCEPT ![obj] = TRUE] ELSE f

CounterAfter(f, k, obj) ==
    IF obj \in Promises /\ ~f[obj] THEN [k EXCEPT ![obj] = @ + 1] ELSE k

\* ------------------------------------------------------ Scm_ThreadLocalRef
\* (variant: for a LAZY descriptor the forced value is stored in the slot)
Scm_ThreadLocalRef_StoreForced(h, t, tl) ==
    LET unset == tl.index < t.size /\ Slot(h, t, tl.index) = SCM_UNBOUND
        result == IF tl.index >= t.size \/ unset THEN tl.initialValue
                  ELSE Slot(h, t, tl.index)
        value == IF IsLazy(tl) THEN Scm_Force(result) ELSE result
    IN  [result |-> value,
         forcing |-> IF IsLazy(tl) THEN result ELSE NoValue,
         heap |-> IF tl.index < t.size
                  THEN [h EXCEPT ![t.vector][tl.index + 1] = value]
                  ELSE h,
         table |-> t, path |-> "ref", arg |-> NoValue]

\* (variant: a read beyond the table grows it and fills the slot first)
Scm_ThreadLocalRef_Ensure(h, t, tl) ==
    LET grown == ensure_tl_slot(h, t, tl.index)
        stored == Slot(grown.heap, grown.table, tl.index)
        result == IF stored = SCM_UNBOUND THEN tl.initialValue ELSE stored
    IN  [result |-> IF IsLazy(tl) THEN Scm_Force(result) ELSE result,
         forcing |-> IF IsLazy(tl) THEN result ELSE NoValue,
         heap |-> [grown.heap EXCEPT
                     ![grown.table.vector][tl.index + 1] = result],
         table |-> grown.table, path |-> "ref", arg |-> NoValue]

\* (variant: tl->initialValue is returned for an unset slot, not stored)
Scm_ThreadLocalRef_NoPopulate(h, t, tl) ==
    LET unset == tl.index < t.size /\ Slot(h, t, tl.index) = SCM_UNBOUND
        result == IF tl.index >= t.size \/ unset THEN tl.initialValue
                  ELSE Slot(h, t, tl.index)
    IN  [result |-> IF IsLazy(tl) THEN Scm_Force(result) ELSE result,
         forcing |-> IF IsLazy(tl) THEN result ELSE NoValue,
         heap |-> h, table |-> t, path |-> "ref", arg |-> NoValue]

\* (variant: the LAZY flag is ignored, the value is returned as stored)
Scm_ThreadLocalRef_NoForce(h, t, tl) ==
    LET unset == tl.index < t.size /\ Slot(h, t, tl.index) = SCM_UNBOUND
        result == IF tl.index >= t.size \/ unset THEN tl.initialValue
                  ELSE Slot(h, t, tl.index)
    IN  [result |-> result, forcing |-> NoValue,
         heap |-> IF unset
                  THEN [h EXCEPT ![t.vector][tl.index + 1] = tl.initialValue]
                  ELSE h,
         table |-> t, path |-> "ref", arg |-> NoValue]

\* (variant: Scm_Force is applied whatever tl->flags says)
Scm_ThreadLocalRef_ForceAlways(h, t, tl) ==
    LET unset == tl.index < t.size /\ Slot(h, t, tl.index) = SCM_UNBOUND
        result == IF tl.index >= t.size \/ unset THEN tl.initialValue
                  ELSE Slot(h, t, tl.index)
    IN  [result |-> Scm_Force(result), forcing |-> result,
         heap |-> IF unset
                  THEN [h EXCEPT ![t.vector][tl.index + 1] = tl.initialValue]
                  ELSE h,
         table |-> t, path |-> "ref", arg |-> NoValue]

\* result: the value returned; forcing: the object handed to Scm_Force (or
\* NoValue); heap: the arrays after the call.
Scm_ThreadLocalRef(h, t, tl) ==
    LET unset == tl.index < t.size /\ Slot(h, t, tl.index) = SCM_UNBOUND
        result == IF tl.index >= t.size THEN tl.initialValue
                  ELSE IF unset THEN tl.initialValue
                  ELSE Slot(h, t, tl.index)
        h2 == IF unset
              THEN [h EXCEPT ![t.vector][tl.index + 1] = tl.initialValue]
              ELSE h
    IN  [result |-> IF IsLazy(tl) THEN Scm_Force(result) ELSE result,
         forcing |-> IF IsLazy(tl) THEN result ELSE NoValue,
         heap |-> h2, table |-> t, path |-> "ref", arg |-> NoValue]

\* ------------------------------------------------------ Scm_ThreadLocalSet
\* (variant: oldval is not replaced by tl->initialValue when it is unbound)
Scm_ThreadLocalSet_RawOld(h, t, tl, val) ==
    LET grown == IF tl.index >= t.size THEN ensure_tl_slot(h, t, tl.index)
                 ELSE [heap |-> h, table |-> t]
        oldval == IF tl.index >= t.size THEN SCM_UNBOUND
                  ELSE Slot(h, t, tl.index)
    IN  [result |-> IF IsLazy(tl) THEN Scm_Force(oldval) ELSE oldval,
         forcing |-> IF IsLazy(tl) THEN oldval ELSE NoValue,
         heap |-> [grown.heap EXCEPT
                     ![grown.table.vector][tl.index + 1] = val],
         table |-> grown.table, path |-> "set", arg |-> val]

Scm_ThreadLocalSet(h, t, tl, val) ==
    LET grown == IF tl.index >= t.size THEN ensure_tl_slot(h, t, tl.index)
                 ELSE [heap |-> h, table |-> t]
        stored == IF tl.index >= t.size THEN SCM_UNBOUND
                  ELSE Slot(h, t, tl.index)
        oldval == IF stored = SCM_UNBOUND THEN tl.initialValue ELSE stored
        h2 == [grown.heap EXCEPT ![grown.table.vector][tl.index + 1] = val]
    IN  [result |-> IF IsLazy(tl) THEN Scm_Force(oldval) ELSE oldval,
         forcing |-> IF IsLazy(tl) THEN oldval ELSE NoValue,
         heap |-> h2, table |-> grown.table, path |-> "set", arg |-> val]

\* ------------------------------------------------------- parameter subrs
\* Scm_Error("Wrong number of arguments for a parameter: 0 or 1 argument(s)
\* expected, ..."): a non-local exit out of the subr.
ArityError == "0 or 1 argument(s) expected"

Raised(h, t, msg) ==
    [result |-> NoValue, forcing |-> NoValue, heap |-> h, table |-> t,
     path |-> msg, arg |-> NoValue]

\* SCM_PAIRP(argv[0]) && SCM_PAIRP(SCM_CDR(argv[0]))
TwoOrMore(args) == Len(args) >= 1 /\ Len(Tail(args)) >= 1

\* (variant: the cdr of the argument list is not looked at)
prim_param_proc_NoArity(h, t, tl, args) ==
    IF Len(args) >= 1
    THEN Scm_ThreadLocalSet(h, t, tl, Head(args))
    ELSE Scm_ThreadLocalRef(h, t, tl)

prim_param_proc(h, t, tl, args) ==
    IF Len(args) >= 1
    THEN IF TwoOrMore(args) THEN Raised(h, t, ArityError)
         ELSE Scm_ThreadLocalSet(h, t, tl, Head(args))
    ELSE Scm_ThreadLocalRef(h, t, tl)

\* (variant: the one-argument call writes the slot itself)
general_param_proc_RawSet(h, t, tl, args) ==
    IF Len(args) >= 1
    THEN IF TwoOrMore(args) THEN Raised(h, t, ArityError)
         ELSE Scm_ThreadLocalSet(h, t, tl, Head(args))
    ELSE Scm_ThreadLocalRef(h, t, tl)

\* Scm_VMApply2 only arranges for the VM to call %parameter-set! with the
\* parameter and the value once the subr has returned.
general_param_proc(h, t, tl, args) ==
    IF Len(args) >= 1
    THEN IF TwoOrMore(args) THEN Raised(h, t, ArityError)
         ELSE [result |-> NoValue, forcing |-> NoValue, heap |-> h,
               table |-> t, path |-> "%parameter-set!", arg |-> Head(args)]
    ELSE Scm_ThreadLocalRef(h, t, tl)

Scm_MakePrimitiveParameterSubr(tl) ==
    IF tl.klass = PrimitiveParameterClass THEN "prim_param_proc"
    ELSE "general_param_proc"

\* ------------------------------------------------------------------- Init
\* The primordial VM with its table.  Either nothing has been allocated, or
\* the primordial VM has made BootIssued thread locals it has not touched
\* since (their descriptors are not followed).
Init ==
    /\ next_tl_index \in {0, BootIssued}
    /\ issued = [i \in 1..next_tl_index |-> i - 1]
    /\ tl_mutex = NoVM
    /\ heap = Scm__MakeVMThreadLocalTable(<<>>, NoTable).heap
    /\ threadLocals = [v \in VMs |->
                         IF v = 1
                         THEN Scm__MakeVMThreadLocalTable(<<>>, NoTable).table
                         ELSE NoTable]
    /\ vms = {1}
    /\ parent = [v \in VMs |-> NoVM]
    /\ pc = [v \in VMs |-> "idle"]
    /\ frame = [v \in VMs |-> NoFrame]
    /\ descriptors = <<>>
    /\ forced = [p \in Promises |-> FALSE]
    /\ counter = [p \in Promises |-> 0]
    /\ outcome = NoOutcome
    /\ utf8 = NoUtf8

\* ---------------------------------------------------- Scm_MakeThreadLocal
\* (variant: the lock excludes nobody)
MutexFree_Always(m) == TRUE

\* SCM_INTERNAL_MUTEX_LOCK can proceed
MutexFree(m) == m = NoVM

InFlight == Cardinality({v \in VMs : pc[v] # "idle"})

\* A VM enters Scm_MakeThreadLocal(klass, name, initval, flags).
MakeThreadLocal_Call(vm, kind) ==
    /\ vm \in vms /\ pc[vm] = "idle"
    /\ Len(descriptors) + InFlight < MaxThreadLocals
    /\ pc' = [pc EXCEPT ![vm] = "lock"]
    /\ frame' = [frame EXCEPT ![vm] =
                   [klass |-> kind.klass, initval |-> kind.initval,
                    flags |-> kind.flags, index |-> NoValue]]
    /\ UNCHANGED <<utf8, next_tl_index, tl_mutex, heap, threadLocals, vms, parent,
                   descriptors, forced, counter, issued,
                   outcome>>

\* SCM_INTERNAL_MUTEX_LOCK(tl_mutex)
MakeThreadLocal_Lock(vm) ==
    /\ pc[vm] = "lock"
    /\ MutexFree(tl_mutex)
    /\ tl_mutex' = vm
    /\ pc' = [pc EXCEPT ![vm] = "read"]
    /\ UNCHANGED <<utf8, next_tl_index, heap, threadLocals, vms, parent, frame,
                   descriptors, forced, counter, issued,
                   outcome>>

\* index = next_tl_index ...
MakeThreadLocal_Read(vm) ==
    /\ pc[vm] = "read"
    /\ frame' = [frame EXCEPT ![vm].index = next_tl_index]
    /\ issued' = Append(issued, next_tl_index)
    /\ pc' = [pc EXCEPT ![vm] = "incr"]
    /\ UNCHANGED <<utf8, next_tl_index, tl_mutex, heap, threadLocals, vms, parent,
                   descriptors, forced, counter, outcome>>

\* ScmSize is a signed integer type; its largest and smallest values where
\* it has 32 bits.
ScmSizeMax == 2147483647
ScmSizeMin == -ScmSizeMax - 1

\* What the increment of next_tl_index++ can come to when the counter holds
\* n.  There is no test before it, so at n = ScmSizeMax it is a signed
\* overflow, which the language leaves undefined: the build either wraps
\* the counter round to ScmSizeMin or traps, ending the process.
PostIncrement(n) ==
    IF n = ScmSizeMax
    THEN {[trap |-> FALSE, value |-> ScmSizeMin],
          [trap |-> TRUE, value |-> n]}
    ELSE {[trap |-> FALSE, value |-> n + 1]}

\* ... ++
MakeThreadLocal_Incr(vm) ==
    /\ pc[vm] = "incr"
    /\ \E o \in PostIncrement(frame[vm].index) :
          ~o.trap /\ next_tl_index' = o.value
    /\ pc' = [pc EXCEPT ![vm] = "unlock"]
    /\ UNCHANGED <<utf8, tl_mutex, heap, threadLocals, vms, parent, frame,
                   descriptors, forced, counter, issued,
                   outcome>>

\* (variant: the unlock is missing before ensure_tl_slot)
MakeThreadLocal_Unlock_Missing(vm) ==
    /\ pc[vm] = "unlock"
    /\ pc' = [pc EXCEPT ![vm] = "ensure"]
    /\ UNCHANGED <<utf8, next_tl_index, tl_mutex, heap, threadLocals, vms, parent,
                   frame, descriptors, forced, counter, issued, outcome>>

\* (variant: on the path where the table must grow the unlock is skipped)
MakeThreadLocal_Unlock_GrowPath(vm) ==
    /\ pc[vm] = "unlock"
    /\ tl_mutex' = IF frame[vm].index >= threadLocals[vm].size
                   THEN tl_mutex ELSE NoVM
    /\ pc' = [pc EXCEPT ![vm] = "ensure"]
    /\ UNCHANGED <<utf8, next_tl_index, heap, threadLocals, vms, parent, frame,
                   descriptors, forced, counter, issued,
                   outcome>>

\* SCM_INTERNAL_MUTEX_UNLOCK(tl_mutex)
MakeThreadLocal_Unlock(vm) ==
    /\ pc[vm] = "unlock"
    /\ tl_mutex' = NoVM
    /\ pc' = [pc EXCEPT ![vm] = "ensure"]
    /\ UNCHANGED <<utf8, next_tl_index, heap, threadLocals, vms, parent, frame,
                   descriptors, forced, counter, issued,
                   outcome>>

\* (variant: ensure_tl_slot is applied to the primordial VM's table, not to
\* the table of Scm_VM())
MakeThreadLocal_Return_RootTable(vm) ==
    /\ pc[vm] = "ensure"
    /\ LET r == ensure_tl_slot(heap, threadLocals[1], frame[vm].index)
           tl == [klass |-> frame[vm].klass, index |-> frame[vm].index,
                  initialValue |-> frame[vm].initval,
                  flags |-> frame[vm].flags]
       IN  /\ heap' = r.heap
           /\ threadLocals' = [threadLocals EXCEPT ![1] = r.table]
           /\ descriptors' = Append(descriptors, tl)
           /\ outcome' = NoOutcome
    /\ pc' = [pc EXCEPT ![vm] = "idle"]
    /\ frame' = [frame EXCEPT ![vm] = NoFrame]
    /\ UNCHANGED <<utf8, next_tl_index, tl_mutex, vms, parent, forced, counter,
                   issued>>

\* ensure_tl_slot(Scm_VM()->threadLocals, index), then the descriptor is
\* built and returned.
MakeThreadLocal_Return(vm) ==
    /\ pc[vm] = "ensure"
    /\ LET r == ensure_tl_slot(heap, threadLocals[vm], frame[vm].index)
           tl == [klass |-> frame[vm].klass, index |-> frame[vm].index,
                  initialValue |-> frame[vm].initval,
                  flags |-> frame[vm].flags]
       IN  /\ heap' = r.heap
           /\ threadLocals' = [threadLocals EXCEPT ![vm] = r.table]
           /\ descriptors' = Append(descriptors, tl)
           /\ outcome' = NoOutcome
    /\ pc' = [pc EXCEPT ![vm] = "idle"]
    /\ frame' = [frame EXCEPT ![vm] = NoFrame]
    /\ UNCHANGED <<utf8, next_tl_index, tl_mutex, vms, parent, forced, counter,
                   issued>>

\* ----------------------------------------------- creation of a VM's table
\* Scm__MakeVMThreadLocalTable(base), called by the creator VM `base`, or
\* with base == NULL for a VM that inherits nothing.
NewVM(base, vm) ==
    /\ vm \in VMs \ vms
    /\ vm = Cardinality(vms) + 1
    /\ base = NoVM \/ (base \in vms /\ pc[base] = "idle")
    /\ LET r == Scm__MakeVMThreadLocalTable(
                    heap, IF base = NoVM THEN NoTable ELSE threadLocals[base])
       IN  /\ heap' = r.heap
           /\ threadLocals' = [threadLocals EXCEPT ![vm] = r.table]
    /\ vms' = vms \cup {vm}
    /\ parent' = [parent EXCEPT ![vm] = base]
    /\ outcome' = NoOutcome
    /\ UNCHANGED <<utf8, next_tl_index, tl_mutex, pc, frame, descriptors, forced,
                   counter, issued>>

\* ------------------------------------------------- accessor and modifier
\* The state after an accessor, modifier or subr call by vm that came out
\* as r (one of the records above).
Completes(vm, d, r) ==
    /\ heap' = r.heap
    /\ threadLocals' = [threadLocals EXCEPT ![vm] = r.table]
    /\ forced' = ForcedAfter(forced, r.forcing)
    /\ counter' = CounterAfter(forced, counter, r.forcing)
    /\ outcome' = [error |-> IF r.path = ArityError THEN ArityError ELSE "",
                   applied |-> IF r.path = "%parameter-set!"
                               THEN <<"%parameter-set!", d, r.arg>>
                               ELSE <<>>]
    /\ UNCHANGED <<utf8, next_tl_index, tl_mutex, vms, parent, pc, frame,
                   descriptors, issued>>

\* Scm_ThreadLocalRef(vm, tl) called by vm on its own table
ThreadLocalRef(vm, d) ==
    /\ vm \in vms /\ pc[vm] = "idle"
    /\ d \in DOMAIN descriptors
    /\ Completes(vm, d,
                 Scm_ThreadLocalRef(heap, threadLocals[vm], descriptors[d]))

\* Scm_ThreadLocalSet(vm, tl, val) called by vm on its own table
ThreadLocalSet(vm, d, val) ==
    /\ vm \in vms /\ pc[vm] = "idle"
    /\ d \in DOMAIN descriptors
    /\ Completes(vm, d,
                 Scm_ThreadLocalSet(heap, threadLocals[vm], descriptors[d],
                                    val))

\* The subr made by Scm_MakePrimitiveParameterSubr(tl), applied to args
ParameterCall(vm, d, args) ==
    /\ vm \in vms /\ pc[vm] = "idle"
    /\ d \in DOMAIN descriptors
    /\ Completes(vm, d,
         IF Scm_MakePrimitiveParameterSubr(descriptors[d]) = "prim_param_proc"
         THEN prim_param_proc(heap, threadLocals[vm], descriptors[d], args)
         ELSE general_param_proc(heap, threadLocals[vm], descriptors[d],
                                 args))

\* ------------------------------------------------------------------- Next
Next ==
    \/ \E vm \in VMs, kind \in Kinds : MakeThreadLocal_Call(vm, kind)
    \/ \E vm \in VMs : MakeThreadLocal_Lock(vm)
    \/ \E vm \in VMs : MakeThreadLocal_Read(vm)
    \/ \E vm \in VMs : MakeThreadLocal_Incr(vm)
    \/ \E vm \in VMs : MakeThreadLocal_Unlock(vm)
    \/ \E vm \in VMs : MakeThreadLocal_Return(vm)
    \/ \E base \in VMs \cup {NoVM}, vm \in VMs : NewVM(base, vm)
    \/ \E vm \in VMs, d \in 1..MaxThreadLocals : ThreadLocalRef(vm, d)
    \/ \E vm \in VMs, d \in 1..MaxThreadLocals, val \in SetVals :
          ThreadLocalSet(vm, d, val)
    \/ \E vm \in VMs, d \in 1..MaxThreadLocals, args \in ArgLists :
          ParameterCall(vm, d, args)

Spec == Init /\ [][Next]_vars

(***************************************************************************)
(* Properties                                                              *)
(***************************************************************************)
\* What Scm_ThreadLocalRef(vm, descriptors[d]) returns in the current state
ReadValue(vm, d) ==
    Scm_ThreadLocalRef(heap, threadLocals[vm], descriptors[d]).result

\* tl->initialValue as a read hands it out: forced if the descriptor is LAZY
InitialRead(tl) ==
    IF IsLazy(tl) THEN Scm_Force(tl.initialValue) ELSE tl.initialValue

\* The slot of tl in table t is unset: out of capacity, or SCM_UNBOUND
Unset(h, t, tl) ==
    tl.index >= t.size \/ Slot(h, t, tl.index) = SCM_UNBOUND

\* The step is a write of descriptor d by vm
WriteStep(vm, d) ==
    \/ \E val \in SetVals : ThreadLocalSet(vm, d, val)
    \/ \E args \in ArgLists : Len(args) = 1 /\ ParameterCall(vm, d, args)

\* The table a VM created now from base would get (base = NoVM: from NULL)
FreshTable(base) ==
    Scm__MakeVMThreadLocalTable(
        heap, IF base = NoVM THEN NoTable ELSE threadLocals[base])

\* C1: whatever the interleaving of Scm_MakeThreadLocal calls, the k-th call
\* to take tl_mutex gets index k-1 (the old counter, which then goes up by
\* one, from 0), so the indices are strictly increasing in lock order and no
\* two descriptors have the same index.
C1_IndicesUniqueAndIncreasing ==
    /\ \A i \in DOMAIN issued : issued[i] = i - 1
    /\ \A i, j \in DOMAIN issued : i < j => issued[i] < issued[j]
    /\ \A i, j \in DOMAIN descriptors :
          i # j => descriptors[i].index # descriptors[j].index
    /\ \A i \in DOMAIN descriptors :
          \E k \in DOMAIN issued : issued[k] = descriptors[i].index
    /\ next_tl_index
          = Len(issued) - Cardinality({v \in VMs : pc[v] = "incr"})

\* Two VMs were inside Scm_MakeThreadLocal together: the one that took the
\* lock second returned first.
C1_Witness ==
    /\ Len(descriptors) = 2
    /\ descriptors[1].index > descriptors[2].index

\* C2 as claimed: in every reachable state, for every VM, descriptor and
\* value, what Scm_ThreadLocalSet returns is what Scm_ThreadLocalRef returns
\* in that state; and the first write of a descriptor in a VM (here: in a VM
\* created now, as a root or from any existing VM) returns
\* tl->initialValue, forced if the descriptor is LAZY.
C2_AsClaimed ==
    \A vm \in vms, d \in DOMAIN descriptors, val \in SetVals :
        LET tl == descriptors[d]
        IN  /\ Scm_ThreadLocalSet(heap, threadLocals[vm], tl, val).result
                 = ReadValue(vm, d)
            /\ \A base \in vms \cup {NoVM} :
                  LET n == FreshTable(base)
                  IN  Scm_ThreadLocalSet(n.heap, n.table, tl, val).result
                        = InitialRead(tl)

\* C2: in every reachable state, for every VM, descriptor and value, what
\* Scm_ThreadLocalSet returns is what Scm_ThreadLocalRef returns in that
\* state.  For an unset slot (SCM_UNBOUND, or an index beyond the table)
\* that is tl->initialValue, forced if the descriptor is LAZY: so it is for
\* the first write in a root VM, while the first write in a VM made from a
\* creator returns what the creator reads at the copy.
C2_SetReturnsWhatRefReturned ==
    \A vm \in vms, d \in DOMAIN descriptors, val \in SetVals :
        LET t == threadLocals[vm]
            tl == descriptors[d]
            w == Scm_ThreadLocalSet(heap, t, tl, val)
        IN  /\ w.result = ReadValue(vm, d)
            /\ Unset(heap, t, tl) => w.result = InitialRead(tl)
            /\ \A base \in vms \cup {NoVM} :
                  LET n == FreshTable(base)
                  IN  Scm_ThreadLocalSet(n.heap, n.table, tl, val).result
                        = IF base = NoVM THEN InitialRead(tl)
                          ELSE ReadValue(base, d)

\* All three cases at once: a descriptor beyond one VM's table, written in
\* another, and a LAZY descriptor whose slot is still unset.
C2_Witness ==
    \E v1, v2 \in vms, d1, d2 \in DOMAIN descriptors :
        /\ descriptors[d1].index >= threadLocals[v1].size
        /\ descriptors[d1].index < threadLocals[v2].size
        /\ Slot(heap, threadLocals[v2], descriptors[d1].index) = 5
        /\ IsLazy(descriptors[d2])
        /\ Unset(heap, threadLocals[v2], descriptors[d2])

\* C3 as claimed: after Scm_ThreadLocalSet(vm, tl, v) on a descriptor that
\* is not LAZY, the next Scm_ThreadLocalRef(vm, tl) returns v, for every v.
C3_AsClaimed ==
    \A vm \in vms, d \in DOMAIN descriptors, val \in SetVals :
        LET tl == descriptors[d]
            w == Scm_ThreadLocalSet(heap, threadLocals[vm], tl, val)
        IN  ~IsLazy(tl) => Scm_ThreadLocalRef(w.heap, w.table, tl).result = val

\* C3: Scm_ThreadLocalSet(vm, tl, v) leaves v itself (not forced) in the
\* slot, whatever the table's size was; and if tl is not LAZY and v is not
\* SCM_UNBOUND, the next Scm_ThreadLocalRef(vm, tl) returns v.  (A written
\* SCM_UNBOUND reads back as tl->initialValue.)
C3_WriteThenRead ==
    \A vm \in vms, d \in DOMAIN descriptors, val \in SetVals :
        LET tl == descriptors[d]
            w == Scm_ThreadLocalSet(heap, threadLocals[vm], tl, val)
            r == Scm_ThreadLocalRef(w.heap, w.table, tl)
        IN  /\ tl.index < w.table.size
            /\ Slot(w.heap, w.table, tl.index) = val
            /\ (~IsLazy(tl) /\ val # SCM_UNBOUND) => r.result = val
            /\ (~IsLazy(tl) /\ val = SCM_UNBOUND)
                   => r.result = tl.initialValue

\* A promise written into a table that had to grow for it sits there
\* unforced.
C3_Witness ==
    \E vm \in vms, d \in DOMAIN descriptors :
        /\ ~IsLazy(descriptors[d])
        /\ descriptors[d].index >= THREAD_LOCAL_INIT_SIZE
        /\ descriptors[d].index < threadLocals[vm].size
        /\ Slot(heap, threadLocals[vm], descriptors[d].index) = Promise42
        /\ ~forced[Promise42]

Vec(h, t) == h[t.vector]

\* C5: for a VM c made from a creator p, a step that changes p's table
\* (a write, a read that fills a slot, a growth) changes neither c's array
\* nor anything c reads, and the other way round; and what either reads for
\* a descriptor changes only by its own write of that descriptor.  The two
\* tables never use the same array.
C5_CopyOnSpawnIsolation ==
    /\ [](\A c \in vms : parent[c] # NoVM =>
            threadLocals[c].vector # threadLocals[parent[c]].vector)
    /\ [][\A c \in vms : parent[c] # NoVM =>
            LET p == parent[c]
                changed(v) == Vec(heap', threadLocals'[v])
                                # Vec(heap, threadLocals[v])
                same(v) == \A d \in DOMAIN descriptors :
                              ReadValue(v, d)' = ReadValue(v, d)
            IN  /\ changed(p) => ~changed(c) /\ same(c)
                /\ changed(c) => ~changed(p) /\ same(p)
                /\ \A d \in DOMAIN descriptors :
                      /\ ReadValue(c, d)' # ReadValue(c, d) => WriteStep(c, d)
                      /\ ReadValue(p, d)' # ReadValue(p, d) => WriteStep(p, d)
         ]_vars

\* After the copy the creator's table grew and the two read different
\* values for a descriptor.
C5_Witness ==
    \E c \in vms, d \in DOMAIN descriptors :
        /\ parent[c] # NoVM
        /\ threadLocals[parent[c]].size > threadLocals[c].size
        /\ ReadValue(c, d) # ReadValue(parent[c], d)

\* C6: in the step that makes a VM from a creator, the new table has the
\* creator's size and, slot by slot, the creator's contents, in an array of
\* its own; so the new VM reads for every descriptor what the creator reads.
C6_SpawnInherits ==
    [][\A c \in VMs \ vms :
          (c \in vms' /\ parent'[c] # NoVM) =>
              LET p == parent'[c]
              IN  /\ threadLocals'[c].size = threadLocals[p].size
                  /\ threadLocals'[c].vector # threadLocals'[p].vector
                  /\ \A i \in 0..(threadLocals[p].size - 1) :
                        Slot(heap', threadLocals'[c], i)
                          = Slot(heap, threadLocals[p], i)
                  /\ \A d \in DOMAIN descriptors :
                        ReadValue(c, d)' = ReadValue(p, d)]_vars

\* A VM made from a creator whose table had grown and held a written 5, a
\* filled-in initial value and unset slots.
C6_Witness ==
    \E c \in vms, d1, d2 \in DOMAIN descriptors :
        /\ parent[c] # NoVM
        /\ threadLocals[c].size > THREAD_LOCAL_INIT_SIZE
        /\ threadLocals[c].size = threadLocals[parent[c]].size
        /\ Vec(heap, threadLocals[c]) = Vec(heap, threadLocals[parent[c]])
        /\ Slot(heap, threadLocals[c], descriptors[d1].index) = 5
        /\ Slot(heap, threadLocals[c], descriptors[d2].index)
             = descriptors[d2].initialValue

\* The indices in use: of the descriptors, of the calls under way, and the
\* next one
IndicesInUse ==
    {descriptors[d].index : d \in DOMAIN descriptors}
      \cup {frame[v].index : v \in {w \in VMs : frame[w].index >= 0}}
      \cup {next_tl_index}

\* C7: ensure_tl_slot(p, index) with index >= p->size leaves the content of
\* every slot below the old size where it was and puts SCM_UNBOUND in every
\* new slot; and in every step in which a table grows, by
\* Scm_MakeThreadLocal or by Scm_ThreadLocalSet, the slots below the old
\* size keep their content.
C7_GrowthPreservesContents ==
    /\ [](\A vm \in vms, index \in IndicesInUse :
            LET t == threadLocals[vm]
                r == ensure_tl_slot(heap, t, index)
            IN  index >= t.size =>
                  /\ r.table.size > index
                  /\ \A i \in 0..(t.size - 1) :
                        Slot(r.heap, r.table, i) = Slot(heap, t, i)
                  /\ \A i \in t.size..(r.table.size - 1) :
                        Slot(r.heap, r.table, i) = SCM_UNBOUND)
    /\ [][\A vm \in vms :
            threadLocals'[vm].size > threadLocals[vm].size =>
              \A i \in 0..(threadLocals[vm].size - 1) :
                  Slot(heap', threadLocals'[vm], i)
                    = Slot(heap, threadLocals[vm], i)]_vars

\* One table grown by Scm_MakeThreadLocal and one by Scm_ThreadLocalSet,
\* each still holding what was written below the old size.
C7_Witness ==
    \E v1, v2 \in vms, d1, d2 \in DOMAIN descriptors :
        /\ v1 # v2
        /\ descriptors[d1].index < THREAD_LOCAL_INIT_SIZE
        /\ descriptors[d2].index >= THREAD_LOCAL_INIT_SIZE
        /\ threadLocals[v1].size > THREAD_LOCAL_INIT_SIZE
        /\ threadLocals[v2].size > THREAD_LOCAL_INIT_SIZE
        /\ Slot(heap, threadLocals[v1], descriptors[d1].index) = 5
        /\ Slot(heap, threadLocals[v2], descriptors[d1].index) = Promise42
        /\ Slot(heap, threadLocals[v1], descriptors[d2].index) = SCM_UNBOUND
        /\ Slot(heap, threadLocals[v2], descriptors[d2].index) = 5

\* C8: no step lowers the size of a VM's table, and no VM's table goes away.
C8_CapacityNeverShrinks ==
    [][\A vm \in vms :
          /\ vm \in vms'
          /\ threadLocals'[vm].size >= threadLocals[vm].size]_vars

\* A table that grew, with descriptors below and above the initial size.
C8_Witness ==
    \E vm \in vms, d1, d2 \in DOMAIN descriptors :
        /\ threadLocals[vm].size > THREAD_LOCAL_INIT_SIZE
        /\ descriptors[d1].index < THREAD_LOCAL_INIT_SIZE
        /\ descriptors[d2].index >= THREAD_LOCAL_INIT_SIZE
        /\ Slot(heap, threadLocals[vm], descriptors[d1].index) # SCM_UNBOUND
        /\ Slot(heap, threadLocals[vm], descriptors[d2].index) # SCM_UNBOUND

\* C9: both subrs, given two or more arguments, raise the arity error and
\* leave the arrays, the table and the promises as they were; and a step
\* that ends in the arity error has changed no table.
C9_ArityErrorChangesNothing ==
    \A vm \in vms, d \in DOMAIN descriptors, args \in ArgLists :
        LET t == threadLocals[vm]
            tl == descriptors[d]
            a == prim_param_proc(heap, t, tl, args)
            b == general_param_proc(heap, t, tl, args)
        IN  /\ Len(args) >= 2 =>
                /\ a.path = ArityError /\ b.path = ArityError
                /\ a.heap = heap /\ b.heap = heap
                /\ a.table = t /\ b.table = t
                /\ a.forcing = NoValue /\ b.forcing = NoValue
            /\ Len(args) < 2 => a.path # ArityError /\ b.path # ArityError

\* A subr has just been called with two arguments, in a VM whose table
\* holds a written value.
C9_Witness ==
    /\ outcome.error = ArityError
    /\ \E vm \in vms, d \in DOMAIN descriptors :
          /\ descriptors[d].index < threadLocals[vm].size
          /\ Slot(heap, threadLocals[vm], descriptors[d].index) = 5

\* C10: the delayed expression of a LAZY descriptor's initialValue is run at
\* most once, whatever reads and writes are made; after any read or write
\* of the descriptor it has been run exactly once.  Where the slot is unset
\* or holds that promise, a read returns the promise's value; a second read,
\* or a write returning the previous value, returns the same value and does
\* not run it again.
C10_LazyForcedOnce ==
    /\ \A p \in Promises : counter[p] = IF forced[p] THEN 1 ELSE 0
    /\ \A vm \in vms, d \in DOMAIN descriptors, val \in SetVals :
          LET t == threadLocals[vm]
              tl == descriptors[d]
              p == tl.initialValue
              r1 == Scm_ThreadLocalRef(heap, t, tl)
              f1 == ForcedAfter(forced, r1.forcing)
              k1 == CounterAfter(forced, counter, r1.forcing)
              r2 == Scm_ThreadLocalRef(r1.heap, r1.table, tl)
              k2 == CounterAfter(f1, k1, r2.forcing)
              w == Scm_ThreadLocalSet(r1.heap, r1.table, tl, val)
              k3 == CounterAfter(f1, k1, w.forcing)
              w0 == Scm_ThreadLocalSet(heap, t, tl, val)
              k0 == CounterAfter(forced, counter, w0.forcing)
          IN  (IsLazy(tl) /\ p \in Promises) =>
                 /\ k1[p] = 1 /\ k0[p] = 1
                 /\ k2 = k1 /\ k3 = k1
                 /\ r2.result = r1.result /\ w.result = r1.result
                 /\ (Unset(heap, t, tl) \/ Slot(heap, t, tl.index) = p)
                       => r1.result = PromiseBody[p]

\* The promise has been run, by a read that filled the slot with it.
C10_Witness ==
    /\ counter[Promise42] = 1
    /\ \E vm \in vms, d \in DOMAIN descriptors :
          /\ IsLazy(descriptors[d])
          /\ descriptors[d].index < threadLocals[vm].size
          /\ Slot(heap, threadLocals[vm], descriptors[d].index) = Promise42

\* C11: the step on which Scm_MakeThreadLocal returns a descriptor to the VM
\* that called it leaves that VM's table with size > the descriptor's index
\* (ensure_tl_slot has run before the return), and a table that covers a
\* descriptor's index covers it after every later step.
C11_CapacityCoversIndexOnReturn ==
    [][ /\ \A vm \in VMs :
              MakeThreadLocal_Return(vm) =>
                 /\ Len(descriptors') = Len(descriptors) + 1
                 /\ descriptors'[Len(descriptors')].index = frame[vm].index
                 /\ threadLocals'[vm].size > frame[vm].index
        /\ \A vm \in vms, d \in DOMAIN descriptors :
              descriptors[d].index < threadLocals[vm].size
                 => descriptors'[d].index < threadLocals'[vm].size ]_vars

\* A descriptor with an index beyond the initial table exists, and a VM's
\* table has been grown to cover it, its slot still unset.
C11_Witness ==
    \E vm \in vms, d \in DOMAIN descriptors :
        /\ descriptors[d].index >= THREAD_LOCAL_INIT_SIZE
        /\ threadLocals[vm].size > descriptors[d].index
        /\ Slot(heap, threadLocals[vm], descriptors[d].index) = SCM_UNBOUND
        /\ \A v \in vms : pc[v] = "idle"

\* C12 as claimed: after Scm_ThreadLocalRef of a LAZY descriptor whose slot
\* in the VM's table is unset or holds a promise, the slot holds the forced
\* value the read returned, and no promise any more.
C12_AsClaimed ==
    \A vm \in vms, d \in DOMAIN descriptors :
        LET t == threadLocals[vm]
            tl == descriptors[d]
            r == Scm_ThreadLocalRef(heap, t, tl)
        IN  (/\ IsLazy(tl)
             /\ tl.index < t.size
             /\ Slot(heap, t, tl.index) \in Promises \cup {SCM_UNBOUND})
               => /\ Slot(r.heap, r.table, tl.index) = r.result
                  /\ Slot(r.heap, r.table, tl.index) \notin Promises

\* C12: after Scm_ThreadLocalRef of a LAZY descriptor whose slot in the
\* VM's table is unset or holds a promise, the slot holds the promise
\* itself: tl->initialValue as given if the slot was unset, what it held
\* otherwise.  The forced value is returned and never stored; a later read
\* finds the promise in the slot again and leaves the table as it is.
C12_SlotKeepsThePromise ==
    \A vm \in vms, d \in DOMAIN descriptors :
        LET t == threadLocals[vm]
            tl == descriptors[d]
            r == Scm_ThreadLocalRef(heap, t, tl)
            r2 == Scm_ThreadLocalRef(r.heap, r.table, tl)
        IN  (/\ IsLazy(tl)
             /\ tl.index < t.size
             /\ Slot(heap, t, tl.index) \in Promises \cup {SCM_UNBOUND})
               => /\ Slot(r.heap, r.table, tl.index)
                       = IF Slot(heap, t, tl.index) = SCM_UNBOUND
                         THEN tl.initialValue
                         ELSE Slot(heap, t, tl.index)
                  /\ tl.initialValue \in Promises
                        => Slot(r.heap, r.table, tl.index) \in Promises
                  /\ r.forcing = Slot(r.heap, r.table, tl.index)
                  /\ r2.forcing = r.forcing
                  /\ r2.heap = r.heap /\ r2.table = r.table

\* A LAZY descriptor has been read in a VM: its promise is forced, the read
\* yields the promise's value, and the slot holds the promise.
C12_Witness ==
    \E vm \in vms, d \in DOMAIN descriptors :
        LET tl == descriptors[d]
        IN  /\ IsLazy(tl) /\ tl.initialValue \in Promises
            /\ tl.index < threadLocals[vm].size
            /\ Slot(heap, threadLocals[vm], tl.index) = tl.initialValue
            /\ forced[tl.initialValue]
            /\ ReadValue(vm, d) = PromiseBody[tl.initialValue]

\* The VMs between SCM_INTERNAL_MUTEX_LOCK and SCM_INTERNAL_MUTEX_UNLOCK
InCritical == {v \in VMs : pc[v] \in {"read", "incr", "unlock"}}

\* C13: tl_mutex is held exactly by a VM that is between the lock and the
\* unlock of Scm_MakeThreadLocal, where it only reads and increments
\* next_tl_index; at most one VM is there at a time.  A VM that is about to
\* grow its table and build the descriptor, or that is free to call the
\* accessor or the modifier, does not hold the lock, and no step changes
\* the table or the array of the VM that holds it, or adds a descriptor of
\* its making.
C13_LockOnlyAroundCounter ==
    /\ [](/\ Cardinality(InCritical) <= 1
          /\ \A v \in VMs : (tl_mutex = v) <=> (v \in InCritical)
          /\ \A v \in VMs : pc[v] \in {"idle", "lock", "ensure"}
                               => tl_mutex # v)
    /\ [][ \A v \in vms :
              tl_mutex = v =>
                 /\ threadLocals'[v] = threadLocals[v]
                 /\ heap'[threadLocals[v].vector]
                      = heap[threadLocals[v].vector]
                 /\ Len(descriptors') > Len(descriptors)
                       => descriptors'[Len(descriptors')].index
                            # frame[v].index
                 /\ next_tl_index' \in {next_tl_index, next_tl_index + 1}
       ]_vars

\* One VM holds the lock while another, past its own unlock, is about to
\* grow its table.
C13_Witness ==
    \E v1, v2 \in vms :
        /\ v1 # v2
        /\ tl_mutex = v1
        /\ pc[v2] = "ensure"

\* The step changes the table of VM b or the array the table points to
TableChanged(b) ==
    \/ threadLocals'[b] # threadLocals[b]
    \/ heap'[threadLocals[b].vector] # heap[threadLocals[b].vector]

\* The step is the end of an operation VM b runs on its own table
OwnStep(b) ==
    \/ MakeThreadLocal_Return(b)
    \/ \E d \in DOMAIN descriptors :
          ThreadLocalRef(b, d) \/ WriteStep(b, d)

\* C14: a step that changes a VM's table (its size, its array or a slot) is
\* a step of that VM: its own Scm_MakeThreadLocal returning, its own read
\* or its own write.  A VM's Scm_MakeThreadLocal changes no other VM's
\* table, and the size of a VM's table changes only when that VM makes a
\* thread local or writes one whose index its table does not cover.
C14_OnlyTheOwnerChangesATable ==
    [][ \A b \in vms :
           /\ TableChanged(b) => OwnStep(b)
           /\ \A a \in vms \ {b} : MakeThreadLocal_Return(a)
                                      => ~TableChanged(b)
           /\ threadLocals'[b].size # threadLocals[b].size
                 => \/ MakeThreadLocal_Return(b)
                    \/ \E d \in DOMAIN descriptors :
                          /\ descriptors[d].index >= threadLocals[b].size
                          /\ WriteStep(b, d)
      ]_vars

\* A descriptor made in one VM has grown that VM's table to cover it, while
\* another VM's table still has its initial size and does not cover it.
C14_Witness ==
    \E a, b \in vms, d \in DOMAIN descriptors :
        /\ a # b
        /\ threadLocals[a].size > descriptors[d].index
        /\ threadLocals[b].size = THREAD_LOCAL_INIT_SIZE
        /\ threadLocals[b].size <= descriptors[d].index
        /\ Slot(heap, threadLocals[a], descriptors[d].index) = SCM_UNBOUND

\* C15: Scm_ThreadLocalRef of a descriptor whose index is not below the size
\* of the VM's table returns tl->initialValue, forced if the descriptor is
\* LAZY, and writes nothing: the table and all arrays are as before, and so
\* they are after the read is made again, which returns the same value.
C15_ReadBeyondTableWritesNothing ==
    \A vm \in vms, d \in DOMAIN descriptors :
        LET t == threadLocals[vm]
            tl == descriptors[d]
            r == Scm_ThreadLocalRef(heap, t, tl)
            r2 == Scm_ThreadLocalRef(r.heap, r.table, tl)
        IN  tl.index >= t.size =>
               /\ r.result = InitialRead(tl)
               /\ r.table = t /\ r.heap = heap
               /\ r2.result = r.result
               /\ r2.table = t /\ r2.heap = heap

\* A LAZY descriptor lies beyond a VM's table of the initial size, nothing
\* is stored for it in any table that covers it, and its promise has been
\* forced.
C15_Witness ==
    \E vm \in vms, d \in DOMAIN descriptors :
        LET tl == descriptors[d]
        IN  /\ IsLazy(tl) /\ tl.initialValue \in Promises
            /\ tl.index >= threadLocals[vm].size
            /\ forced[tl.initialValue]
            /\ \A v \in vms : tl.index < threadLocals[v].size
                  => Slot(heap, threadLocals[v], tl.index) = SCM_UNBOUND
            /\ \A d2 \in DOMAIN descriptors : IsLazy(descriptors[d2]) => d2 = d

\* The initval and flags arguments Scm_MakeThreadLocal accepts (any ScmObj,
\* SCM_UNBOUND included), and a descriptor as it would be had it been made
\* with other ones.
InitVals == {0, Promise42, SCM_UNBOUND}

Variants(tl) ==
    {[tl EXCEPT !.initialValue = iv, !.flags = f] :
        iv \in InitVals, f \in {0, SCM_PARAMETER_LAZY}}

\* Arrays h and h2 differ at most in element i+1 of array a
SameButSlot(h, h2, a, i) ==
    /\ Len(h2) = Len(h)
    /\ \A k \in DOMAIN h :
          /\ Len(h2[k]) = Len(h[k])
          /\ \A j \in DOMAIN h[k] :
                (k # a \/ j # i + 1) => h2[k][j] = h[k][j]

\* C16 as claimed: Scm_ThreadLocalRef of a descriptor whose slot is within
\* the table and holds SCM_UNBOUND stores tl->initialValue in the slot and
\* returns tl->initialValue; the size and all other slots are unchanged and
\* the slot does not hold SCM_UNBOUND afterwards.
C16_AsClaimed ==
    \A vm \in vms, d \in DOMAIN descriptors :
        LET t == threadLocals[vm]
            tl == descriptors[d]
            r == Scm_ThreadLocalRef(heap, t, tl)
        IN  (tl.index < t.size /\ Slot(heap, t, tl.index) = SCM_UNBOUND)
               => /\ Slot(r.heap, r.table, tl.index) = tl.initialValue
                  /\ r.result = tl.initialValue
                  /\ r.table = t
                  /\ SameButSlot(heap, r.heap, t.vector, tl.index)
                  /\ Slot(r.heap, r.table, tl.index) # SCM_UNBOUND

\* C16: Scm_ThreadLocalRef of a descriptor whose slot is within the table
\* and holds SCM_UNBOUND stores tl->initialValue in the slot and returns it,
\* forced if the descriptor is LAZY; the size and all other slots are
\* unchanged, and the slot does not hold SCM_UNBOUND afterwards unless
\* tl->initialValue is SCM_UNBOUND.  Stated for the descriptors made and
\* for the same with every other initval and flags.
C16_ReadPopulatesUnsetSlot ==
    \A vm \in vms, d \in DOMAIN descriptors :
        \A tl \in Variants(descriptors[d]) \cup {descriptors[d]} :
            LET t == threadLocals[vm]
                r == Scm_ThreadLocalRef(heap, t, tl)
            IN  (tl.index < t.size /\ Slot(heap, t, tl.index) = SCM_UNBOUND)
                   => /\ Slot(r.heap, r.table, tl.index) = tl.initialValue
                      /\ r.result = InitialRead(tl)
                      /\ r.table = t
                      /\ SameButSlot(heap, r.heap, t.vector, tl.index)
                      /\ tl.initialValue # SCM_UNBOUND
                            => Slot(r.heap, r.table, tl.index) # SCM_UNBOUND

\* A slot holds the initial value of its descriptor, which no write stores
\* (0 is not among SetVals): a read of the unset slot has put it there.
C16_Witness ==
    \E vm \in vms, d \in DOMAIN descriptors :
        /\ ~IsLazy(descriptors[d])
        /\ descriptors[d].initialValue \notin SetVals
        /\ descriptors[d].index < threadLocals[vm].size
        /\ Slot(heap, threadLocals[vm], descriptors[d].index)
             = descriptors[d].initialValue

\* The indices ensure_tl_slot is tried on
Indices == 0..MaxIndex

\* C17: for every table reached and every index, ensure_tl_slot(p, index)
\* leaves the table and the arrays as they are when index < p->size;
\* otherwise the new size is ((index + 16) / 16) * 16, a multiple of
\* THREAD_LOCAL_GROW that is >= index + 1 and < index + 1 + 16.  A table
\* made for base == NULL has THREAD_LOCAL_INIT_SIZE = 64 slots, all
\* SCM_UNBOUND.
C17_GrowthArithmetic ==
    /\ \A vm \in vms, index \in Indices :
          LET p == threadLocals[vm]
              r == ensure_tl_slot(heap, p, index)
              n == r.table.size
          IN  IF index < p.size
              THEN r.table = p /\ r.heap = heap
              ELSE /\ n = ((index + 16) \div 16) * 16
                   /\ n % THREAD_LOCAL_GROW = 0
                   /\ n >= index + 1
                   /\ n < index + 1 + THREAD_LOCAL_GROW
                   /\ Len(r.heap[r.table.vector]) = n
    /\ LET root == FreshTable(NoVM)
       IN  /\ root.table.size = 64
           /\ Len(root.heap[root.table.vector]) = 64
           /\ \A i \in 0..63 : Slot(root.heap, root.table, i) = SCM_UNBOUND

\* A table has been grown from 64 slots to 80 for an index of 64 or 65.
C17_Witness ==
    \E vm \in vms, d \in DOMAIN descriptors :
        /\ descriptors[d].index \in {64, 65}
        /\ threadLocals[vm].size = 80
        /\ Len(heap[threadLocals[vm].vector]) = 80

\* What the subr Scm_MakePrimitiveParameterSubr(tl) makes does with args
ApplySubr(h, t, tl, args) ==
    IF Scm_MakePrimitiveParameterSubr(tl) = "prim_param_proc"
    THEN prim_param_proc(h, t, tl, args)
    ELSE general_param_proc(h, t, tl, args)

\* C18: the subr of a descriptor whose class is not exactly the primitive
\* parameter class is general_param_proc: called with one argument it
\* leaves the table and every slot as they are, forces nothing, and arranges
\* the call of %parameter-set! with the descriptor and the argument.  The
\* subr of a descriptor of the primitive parameter class is
\* prim_param_proc: called with one argument it is
\* Scm_ThreadLocalSet(vm, tl, arg) on the caller's table.  Called with no
\* argument both are Scm_ThreadLocalRef(vm, tl).
C18_GuardedAndDirectSubr ==
    /\ \A vm \in vms, d \in DOMAIN descriptors, v \in SetVals :
          LET t == threadLocals[vm]
              tl == descriptors[d]
              subr == Scm_MakePrimitiveParameterSubr(tl)
              r0 == ApplySubr(heap, t, tl, <<>>)
              r1 == ApplySubr(heap, t, tl, <<v>>)
          IN  /\ r0 = Scm_ThreadLocalRef(heap, t, tl)
              /\ tl.klass = PrimitiveParameterClass =>
                    /\ subr = "prim_param_proc"
                    /\ r1 = Scm_ThreadLocalSet(heap, t, tl, v)
              /\ tl.klass # PrimitiveParameterClass =>
                    /\ subr = "general_param_proc"
                    /\ r1.heap = heap /\ r1.table = t
                    /\ r1.forcing = NoValue
                    /\ r1.path = "%parameter-set!" /\ r1.arg = v
    /\ outcome.applied # <<>> =>
          /\ outcome.applied[1] = "%parameter-set!"
          /\ outcome.applied[2] \in DOMAIN descriptors
          /\ descriptors[outcome.applied[2]].klass # PrimitiveParameterClass
          /\ \E args \in ArgLists :
                Len(args) = 1 /\ outcome.applied[3] = Head(args)

\* The subr of a descriptor of another class has been called with one
\* argument: the call of %parameter-set! is arranged, and the descriptor's
\* slot does not hold the argument in any table.
C18_Witness ==
    /\ outcome.applied # <<>>
    /\ LET tl == descriptors[outcome.applied[2]]
       IN  /\ tl.klass = ParameterClass
           /\ \A vm \in vms :
                 Unset(heap, threadLocals[vm], tl)
                    \/ Slot(heap, threadLocals[vm], tl.index)
                         # outcome.applied[3]

\* ------------------------------------------- legacy entry points (< 0.98)
\* Each yields the warnings it emits with Scm_Warn, in order, and what the
\* call it forwards to is: for a creation the arguments handed to
\* Scm_MakeThreadLocal (and the subr bound in the module, if any), for an
\* access the outcome of the accessor or modifier.
Scm_MakePrimitiveParameter(klass, initval, flags) ==
    [klass |-> klass, initval |-> initval, flags |-> flags]

Scm_BindPrimitiveParameter(initval, flags) ==
    LET p == Scm_MakePrimitiveParameter(PrimitiveParameterClass, initval,
                                        flags)
    IN  [make |-> p, define |-> Scm_MakePrimitiveParameterSubr(p)]

Scm_DefinePrimitiveParameter(initval) ==
    [warnings |-> <<>>,
     forwarded |-> Scm_BindPrimitiveParameter(initval, 0)]

Scm_ParameterRef(h, t, tl) ==
    [warnings |-> <<"Scm_ParameterRef is deprecated.">>,
     forwarded |-> Scm_ThreadLocalRef(h, t, tl)]

Scm_ParameterSet(h, t, tl, value) ==
    [warnings |-> <<"Scm_ParameterSet is deprecated.">>,
     forwarded |-> Scm_ThreadLocalSet(h, t, tl, value)]

Scm_InitParameterLoc(initval) ==
    [warnings |->
        <<"Scm_InitParameterLoc is deprecated.  Use Scm_MakePrimitiveParameter">>,
     forwarded |->
        [make |-> Scm_MakePrimitiveParameter(PrimitiveParameterClass,
                                             initval, 0),
         define |-> ""]]

Scm_MakeParameterSlot ==
    LET init == Scm_InitParameterLoc(SCM_FALSE)
    IN  [warnings |->
            <<"Scm_MakeParameterSlot is deprecated.  Use Scm_MakePrimitiveParameter.">>
              \o init.warnings,
         forwarded |-> init.forwarded]

\* C19 as claimed: each of Scm_DefinePrimitiveParameter, Scm_ParameterRef,
\* Scm_ParameterSet, Scm_InitParameterLoc and Scm_MakeParameterSlot emits a
\* deprecation warning on every call, raises no error, and is otherwise the
\* call it forwards to: the creation of a primitive parameter with the
\* given initial value and no flags, Scm_ThreadLocalRef, or
\* Scm_ThreadLocalSet, with the same result and the same table afterwards.
C19_AsClaimed ==
    /\ \A iv \in InitVals :
          /\ Scm_DefinePrimitiveParameter(iv).warnings # <<>>
          /\ Scm_DefinePrimitiveParameter(iv).forwarded.make
               = [klass |-> PrimitiveParameterClass, initval |-> iv,
                  flags |-> 0]
          /\ Scm_InitParameterLoc(iv).warnings # <<>>
          /\ Scm_InitParameterLoc(iv).forwarded.make
               = [klass |-> PrimitiveParameterClass, initval |-> iv,
                  flags |-> 0]
    /\ Scm_MakeParameterSlot.warnings # <<>>
    /\ Scm_MakeParameterSlot.forwarded.make
         = [klass |-> PrimitiveParameterClass, initval |-> SCM_FALSE,
            flags |-> 0]
    /\ \A vm \in vms, d \in DOMAIN descriptors, v \in SetVals :
          LET t == threadLocals[vm]
              tl == descriptors[d]
              ref == Scm_ParameterRef(heap, t, tl)
              set == Scm_ParameterSet(heap, t, tl, v)
          IN  /\ ref.warnings # <<>>
              /\ ref.forwarded = Scm_ThreadLocalRef(heap, t, tl)
              /\ ref.forwarded.path # ArityError
              /\ set.warnings # <<>>
              /\ set.forwarded = Scm_ThreadLocalSet(heap, t, tl, v)
              /\ set.forwarded.path # ArityError

MakeThreadLocal_Step(vm) ==
    \/ MakeThreadLocal_Lock(vm)
    \/ MakeThreadLocal_Read(vm)
    \/ MakeThreadLocal_Incr(vm)
    \/ MakeThreadLocal_Unlock(vm)
    \/ MakeThreadLocal_Return(vm)

\* Every VM that can go on with its call does so in the end: threads are
\* scheduled, and a free mutex is granted.
FairSpec == Spec /\ \A vm \in VMs : WF_vars(MakeThreadLocal_Step(vm))

C22_SetSlotStaysSet ==
    [][ /\ heap' # heap =>
             \A vm \in vms :
                \A i \in 0..(threadLocals[vm].size - 1) :
                   Slot(heap, threadLocals[vm], i) # SCM_UNBOUND =>
                      \/ /\ i < threadLocals'[vm].size
                         /\ Slot(heap', threadLocals'[vm], i) # SCM_UNBOUND
                      \/ \E d \in DOMAIN descriptors :
                            /\ descriptors[d].index = i
                            /\ ThreadLocalSet(vm, d, SCM_UNBOUND)
        /\ \A c \in vms' \ vms :
              parent'[c] # NoVM =>
                 \A i \in 0..(threadLocals[parent'[c]].size - 1) :
                    Slot(heap, threadLocals[parent'[c]], i) # SCM_UNBOUND =>
                       /\ i < threadLocals'[c].size
                       /\ Slot(heap', threadLocals'[c], i) # SCM_UNBOUND
      ]_vars

\* A slot written before its table grew is still set after the growth, and
\* set in the table of a VM made from that one afterwards.
C22_Witness ==
    \E p, c \in vms, d \in DOMAIN descriptors :
        /\ parent[c] = p
        /\ threadLocals[p].size > THREAD_LOCAL_INIT_SIZE
        /\ threadLocals[c].size = threadLocals[p].size
        /\ descriptors[d].index < THREAD_LOCAL_INIT_SIZE
        /\ Slot(heap, threadLocals[p], descriptors[d].index) = 5
        /\ Slot(heap, threadLocals[c], descriptors[d].index) # SCM_UNBOUND

\* ------------------------------------------------------------------ UTF-8
\* (gauche/char_utf_8.h)  A buffer is the sequence of the bytes at cp, each
\* as an unsigned char.
SCM_CHAR_INVALID == -1
ScmCharMax == 2147483647        \* 0x7fffffff

\* x >> n, and x & (2^n - 1)
Shr(x, n) == x \div (2 ^ n)
LowBits(x, n) == x % (2 ^ n)

SCM_CHAR_NBYTES(ch) ==
    IF ch < 128 THEN 1                  \* 0x80
    ELSE IF ch < 2048 THEN 2            \* 0x800
    ELSE IF ch < 65536 THEN 3           \* 0x10000
    ELSE IF ch < 2097152 THEN 4         \* 0x200000
    ELSE IF ch < 67108864 THEN 5        \* 0x4000000
    ELSE 6

Scm_CharSizeTable ==
    [b \in 0..255 |->
        IF b < 192 THEN 0               \* 0x .. bx
        ELSE IF b < 224 THEN 1          \* cx, dx
        ELSE IF b < 240 THEN 2          \* ex
        ELSE IF b < 248 THEN 3          \* f0 .. f7
        ELSE IF b < 252 THEN 4          \* f8 .. fb
        ELSE IF b < 254 THEN 5          \* fc, fd
        ELSE 0]                         \* fe, ff

SCM_CHAR_NFOLLOWS(b) == Scm_CharSizeTable[b]

\* The bytes Scm_CharUtf8Putc(cp, ch) writes, first to last.
Scm_CharUtf8Putc(ch) ==
    IF ch < 128 THEN <<ch>>
    ELSE IF ch < 2048
    THEN <<LowBits(Shr(ch, 6), 5) + 192,
           LowBits(ch, 6) + 128>>
    ELSE IF ch < 65536
    THEN <<LowBits(Shr(ch, 12), 4) + 224,
           LowBits(Shr(ch, 6), 6) + 128,
           LowBits(ch, 6) + 128>>
    ELSE IF ch < 2097152
    THEN <<LowBits(Shr(ch, 18), 3) + 240,
           LowBits(Shr(ch, 12), 6) + 128,
           LowBits(Shr(ch, 6), 6) + 128,
           LowBits(ch, 6) + 128>>
    ELSE IF ch < 67108864
    THEN <<LowBits(Shr(ch, 24), 2) + 248,
           LowBits(Shr(ch, 18), 6) + 128,
           LowBits(Shr(ch, 12), 6) + 128,
           LowBits(Shr(ch, 6), 6) + 128,
           LowBits(ch, 6) + 128>>
    ELSE <<LowBits(Shr(ch, 30), 1) + 252,
           LowBits(Shr(ch, 24), 6) + 128,
           LowBits(Shr(ch, 18), 6) + 128,
           LowBits(Shr(ch, 12), 6) + 128,
           LowBits(Shr(ch, 6), 6) + 128,
           LowBits(ch, 6) + 128>>

\* ch = (ch << 6) | (*ucp++ & 0x3f), over bytes from..to of cp
RECURSIVE Follow(_, _, _, _)
Follow(ch, cp, from, to) ==
    IF from > to THEN ch
    ELSE Follow(ch * 64 + LowBits(cp[from], 6), cp, from + 1, to)

\* What an ScmChar that was never assigned can hold when it is read: any
\* value; these stand for them.
Indeterminate == {SCM_CHAR_INVALID, 0, 65, ScmCharMax}

\* The values Scm_CharUtf8Getc(cp) can return.  With first < 0x80 nothing
\* is assigned to the local ch before `return ch`.
Scm_CharUtf8Getc(cp) ==
    LET first == cp[1]
        decoded(n, bits, least) ==
            LET ch == Follow(LowBits(first, bits), cp, 2, n)
            IN  IF ch < least THEN SCM_CHAR_INVALID ELSE ch
    IN  IF first < 128 THEN Indeterminate
        ELSE IF first < 192 THEN {SCM_CHAR_INVALID}
        ELSE IF first < 224 THEN {decoded(2, 5, 128)}
        ELSE IF first < 240 THEN {decoded(3, 4, 2048)}
        ELSE IF first < 248 THEN {decoded(4, 3, 65536)}
        ELSE IF first < 252 THEN {decoded(5, 2, 2097152)}
        ELSE IF first < 254 THEN {decoded(6, 1, 67108864)}
        ELSE {SCM_CHAR_INVALID}

\* The characters tried: those within Window of 0, of each boundary between
\* two encoded lengths, and of the largest character.
CodePoints ==
    (0..Window)
      \cup UNION {(b - Window)..(b + Window) :
                     b \in {128, 2048, 65536, 2097152, 67108864}}
      \cup {ScmCharMax - k : k \in 0..Window}

Utf8Init ==
    /\ next_tl_index = 0
    /\ issued = <<>>
    /\ tl_mutex = NoVM
    /\ heap = Scm__MakeVMThreadLocalTable(<<>>, NoTable).heap
    /\ threadLocals = [v \in VMs |->
                         IF v = 1
                         THEN Scm__MakeVMThreadLocalTable(<<>>, NoTable).table
                         ELSE NoTable]
    /\ vms = {1}
    /\ parent = [v \in VMs |-> NoVM]
    /\ pc = [v \in VMs |-> "idle"]
    /\ frame = [v \in VMs |-> NoFrame]
    /\ descriptors = <<>>
    /\ forced = [p \in Promises |-> FALSE]
    /\ counter = [p \in Promises |-> 0]
    /\ outcome = NoOutcome
    /\ utf8 \in {[pc |-> "put", ch |-> c, cp |-> <<>>, result |-> NoValue] :
                    c \in CodePoints}

\* Scm_CharUtf8Putc(cp, ch)
Utf8Putc ==
    /\ utf8.pc = "put"
    /\ utf8' = [utf8 EXCEPT !.cp = Scm_CharUtf8Putc(utf8.ch), !.pc = "get"]
    /\ UNCHANGED <<next_tl_index, tl_mutex, heap, threadLocals, vms, parent,
                   pc, frame, descriptors, forced, counter, issued, outcome>>

\* ch = Scm_CharUtf8Getc(cp) on the bytes just written
Utf8Getc ==
    /\ utf8.pc = "get"
    /\ \E r \in Scm_CharUtf8Getc(utf8.cp) :
          utf8' = [utf8 EXCEPT !.result = r, !.pc = "done"]
    /\ UNCHANGED <<next_tl_index, tl_mutex, heap, threadLocals, vms, parent,
                   pc, frame, descriptors, forced, counter, issued, outcome>>

Utf8Next == Utf8Putc \/ Utf8Getc

SpecUtf8 == Utf8Init /\ [][Utf8Next]_vars

\* C23 as claimed: for every character ch in 0..0x7fffffff, the bytes
\* Scm_CharUtf8Putc writes for ch are SCM_CHAR_NBYTES(ch) in number, which
\* is SCM_CHAR_NFOLLOWS(first byte) + 1, and Scm_CharUtf8Getc on them
\* returns ch, the one-byte case ch < 0x80 included.
C23_AsClaimed ==
    /\ utf8.pc \in {"get", "done"} =>
          /\ Len(utf8.cp) = SCM_CHAR_NBYTES(utf8.ch)
          /\ SCM_CHAR_NBYTES(utf8.ch) = SCM_CHAR_NFOLLOWS(utf8.cp[1]) + 1
    /\ utf8.pc = "done" => utf8.result = utf8.ch

====
